---- MODULE Spec2Model ----
(***************************************************************************)
(* Telemetry ingestion and aggregation pipeline of neon-orbit-IoT:         *)
(* RingBuffer (lib/perf/ringBuffer.ts), ObjectPool (lib/pool/objectPool.ts)*)
(* the useAbyssMesh hook (dispatcher + reconciler), the telemetry worker   *)
(* (processBatch) and the zustand network store.                           *)
(***************************************************************************)
EXTENDS Integers, Sequences, FiniteSets, TLC

(***************************************************************************)
(* Bounds of the model.                                                    *)
(***************************************************************************)
\* capacity of the RingBuffer instance explored by SpecRing
RingCap == 3
\* the capacity of the hook's ring buffer (2 * BATCH_SIZE in the code)
EventCap == 3
\* events of a batch in SpecOrder
MaxBatch == 2
\* events given to addEvent in one run of Spec
MaxEvents == 4
\* pushes between two clears in SpecRing
MaxPushes == 4
\* iterations recorded between two mutations of the buffer in SpecRing
MaxIter == 2
\* records the factory of the explored ObjectPool may create in SpecPool
MaxObjs == 3
\* packets the packet-capture feed processes in SpecApp
MaxPackets == 2

VARIABLES
  ring,      \* a RingBuffer: [capacity, buffer, write, read, size]
  log,       \* history: the items pushed since construction or the last clear
  iterOuts,  \* history: the toArray() results taken since the last push/clear
  pool,      \* an ObjectPool: [pool (free list), active (WeakSet), reset]
  objs,      \* the heap: record id -> its fields
  made,      \* how many records the pool's factory has created
  last,      \* history: the last ObjectPool call and what it returned
  enabled,   \* useAbyssMesh: the enabled argument
  workerRef, \* useAbyssMesh: workerRef.current is a live worker
  timers,    \* useAbyssMesh: pending setTimeout(flushBatch) callbacks
  toWorker,  \* messages posted to the worker and not yet handled by it
  fromWorker,\* messages posted by the worker and not yet handled by the hook
  store,     \* useNetworkStore: [nodes, links, asNodes]
  pushed,    \* history: the events given to addEvent since the mount
  posted,    \* history: the batches posted to the worker
  storeRev,  \* SpecOrder: a second store, fed the same messages reversed
  revQueue,  \* SpecOrder: the messages still to be handled on storeRev
  phase,     \* useAbyssMesh: "new" before its first effect, "live", "gone"
  cleanupFn, \* useAbyssMesh: the last effect run returned a cleanup function
  timeoutRef,\* useAbyssMesh: batchTimeoutRef.current holds a timer id
  workers,   \* useAbyssMesh: the workers created and not terminated
  stats,     \* useAbyssMesh: statsRef.current
  handled,   \* history: the last message worker.onmessage of the hook handled
  published, \* history: the stores the last run of that handler set, in order
  captured   \* history: how many packets usePacketCapture processed

ringVars == <<ring, log, iterOuts>>
poolVars == <<pool, objs, made, last>>
lifeVars == <<phase, cleanupFn, timeoutRef, workers>>
obsVars == <<stats, handled, published, captured>>
pipeVars == <<enabled, workerRef, timers, toWorker, fromWorker, store,
              pushed, posted, storeRev, revQueue, lifeVars, obsVars>>
vars == <<ring, log, iterOuts, pool, objs, made, last, enabled, workerRef,
          timers, toWorker, fromWorker, store, pushed, posted, storeRev,
          revQueue, phase, cleanupFn, timeoutRef, workers, stats, handled,
          published, captured>>

(***************************************************************************)
(* JavaScript helpers.                                                     *)
(***************************************************************************)
\* Object.assign(obj, item): every own property of item is written to obj,
\* every other property of obj is left as it is.
ObjectAssign(obj, item) ==
  [f \in (DOMAIN obj) \cup (DOMAIN item) |->
      IF f \in DOMAIN item THEN item[f] ELSE obj[f]]

\* the factory handed to the hook's RingBuffer
EventFactory ==
  [type |-> "flow", src |-> "", dst |-> "", packets |-> 0, bytes |-> 0,
   timestamp |-> 0]

(***************************************************************************)
(* RingBuffer                                                              *)
(***************************************************************************)
RBNew(capacity, factory) ==
  [capacity |-> capacity,
   buffer   |-> [i \in 1..capacity |-> factory],
   write    |-> 0,
   read     |-> 0,
   size     |-> 0]

\* mutant: the read cursor is not advanced when a full buffer is pushed to
RBPush_NoReadAdvance(rb, item) ==
  [rb EXCEPT !.buffer[rb.write + 1] = ObjectAssign(rb.buffer[rb.write + 1], item),
             !.write = (rb.write + 1) % rb.capacity,
             !.size  = IF rb.size < rb.capacity THEN rb.size + 1 ELSE rb.size]

RBPush(rb, item) ==
  [rb EXCEPT !.buffer[rb.write + 1] = ObjectAssign(rb.buffer[rb.write + 1], item),
             !.write = (rb.write + 1) % rb.capacity,
             !.size  = IF rb.size < rb.capacity THEN rb.size + 1 ELSE rb.size,
             !.read  = IF rb.size < rb.capacity THEN rb.read
                       ELSE (rb.read + 1) % rb.capacity]

RBGetSize(rb) == rb.size

RBIsFull(rb) == rb.size = rb.capacity

\* mutant: clear() leaves the write cursor where it is
RBClear_KeepWrite(rb) == [rb EXCEPT !.size = 0, !.read = 0]

RBClear(rb) == [rb EXCEPT !.size = 0, !.read = 0, !.write = 0]

\* the iterator: next() is called with i = 0, 1, ... until i >= size
RECURSIVE RBIterFrom(_, _)
RBIterFrom(rb, i) ==
  IF i >= rb.size THEN <<>>
  ELSE <<rb.buffer[((rb.read + i) % rb.capacity) + 1]>> \o RBIterFrom(rb, i + 1)

\* mutant: the iteration starts at slot 0 instead of the read cursor
RBToArray_FromZero(rb) == [i \in 1..rb.size |-> rb.buffer[i]]

RBToArray(rb) == RBIterFrom(rb, 0)

(***************************************************************************)
(* SpecRing: one RingBuffer driven by any sequence of push, clear and      *)
(* iteration.                                                              *)
(***************************************************************************)
\* the (partial) events pushed in SpecRing
RingItems ==
  { [type |-> "flow", src |-> "A", dst |-> "B", protocol |-> "udp",
     packets |-> 2, bytes |-> 5, timestamp |-> 7],
    [type |-> "flow", src |-> "B", dst |-> "A"],
    [type |-> "threat", src |-> "C"] }

EmptyStore == [nodes |-> <<>>, links |-> <<>>, asNodes |-> <<>>]

\* statsRef.current of a new hook; times are performance.now() readings in
\* milliseconds, counted from the construction of the hook
NewStats == [packetsPerSec |-> 0, bytesPerSec |-> 0, lastUpdate |-> 0]

PipeIdle ==
  /\ enabled = FALSE
  /\ workerRef = FALSE
  /\ timers = 0
  /\ toWorker = <<>>
  /\ fromWorker = <<>>
  /\ store = EmptyStore
  /\ pushed = <<>>
  /\ posted = <<>>
  /\ storeRev = EmptyStore
  /\ revQueue = <<>>
  /\ phase = "new"
  /\ cleanupFn = FALSE
  /\ timeoutRef = FALSE
  /\ workers = 0
  /\ stats = NewStats
  /\ handled = <<>>
  /\ published = <<>>
  /\ captured = 0

PoolIdle ==
  /\ pool = [pool |-> <<>>, active |-> {}, reset |-> "default"]
  /\ objs = [o \in {} |-> 0]
  /\ made = 0
  /\ last = [op |-> "new", n |-> 0]

InitRing ==
  /\ \E capacity \in 1..RingCap : ring = RBNew(capacity, EventFactory)
  /\ log = <<>>
  /\ iterOuts = <<>>
  /\ PoolIdle
  /\ PipeIdle

RingPush(item) ==
  /\ Len(log) < MaxPushes
  /\ ring' = RBPush(ring, item)
  /\ log' = Append(log, item)
  /\ iterOuts' = <<>>
  /\ UNCHANGED <<poolVars, pipeVars>>

RingClear ==
  /\ ring' = RBClear(ring)
  /\ log' = <<>>
  /\ iterOuts' = <<>>
  /\ UNCHANGED <<poolVars, pipeVars>>

RingIterate ==
  /\ Len(iterOuts) < MaxIter
  /\ iterOuts' = Append(iterOuts, RBToArray(ring))
  /\ UNCHANGED <<ring, log>>
  /\ UNCHANGED <<poolVars, pipeVars>>

NextRing ==
  \/ \E item \in RingItems : RingPush(item)
  \/ RingClear
  \/ RingIterate

SpecRing == InitRing /\ [][NextRing]_vars

(***************************************************************************)
(* Claims about the RingBuffer (checked under SpecRing).                   *)
(***************************************************************************)
Min(a, b) == IF a < b THEN a ELSE b

\* rec carries every field the pushed item specified, with the pushed value
Agrees(rec, item) == \A f \in DOMAIN item : f \in DOMAIN rec /\ rec[f] = item[f]

\* the slot written by the most recent push
LastWrittenSlot == ((ring.write + ring.capacity - 1) % ring.capacity) + 1

\* C6: once at least C items were pushed since the last clear, getSize() is
\* exactly C and the retrievable events are the C most recently pushed ones,
\* oldest first; so every further push onto the full buffer drops exactly
\* the oldest held event and no other.
C6_BoundedDrop ==
  Len(log) >= ring.capacity =>
    /\ RBGetSize(ring) = ring.capacity
    /\ RBIsFull(ring)
    /\ Len(RBToArray(ring)) = ring.capacity
    /\ \A i \in 1..ring.capacity :
         Agrees(RBToArray(ring)[i], log[Len(log) - ring.capacity + i])

\* C6 witness: more pushes than the capacity, the last one differing from
\* the one it displaced
C6_Witness ==
  /\ Len(log) > ring.capacity
  /\ log[Len(log)] # log[Len(log) - ring.capacity]

\* C7: every iteration taken in the current buffer state yields exactly
\* getSize() elements, the held events in insertion order (oldest first),
\* and two iterations with no push or clear in between yield the same
\* sequence.
C7_Iteration ==
  \A k \in 1..Len(iterOuts) :
    /\ Len(iterOuts[k]) = RBGetSize(ring)
    /\ Len(iterOuts[k]) = Min(Len(log), ring.capacity)
    /\ \A i \in 1..Len(iterOuts[k]) :
         Agrees(iterOuts[k][i], log[Len(log) - Len(iterOuts[k]) + i])
    /\ iterOuts[k] = iterOuts[1]

\* C7 witness: two iterations of a buffer that wrapped (read cursor moved)
\* and holds pairwise different events
C7_Witness ==
  /\ Len(iterOuts) = 2
  /\ ring.read # 0
  /\ Len(log) > ring.capacity
  /\ iterOuts[1][1] # iterOuts[1][2]

\* C8: after push(item) the written slot holds the pushed values for the
\* specified fields and the factory defaults for every other field, also
\* when the slot is reused after a wrap or a clear.
C8_DefaultFill ==
  log # <<>> =>
    ring.buffer[LastWrittenSlot] = ObjectAssign(EventFactory, log[Len(log)])

(***************************************************************************)
(* ObjectPool                                                              *)
(***************************************************************************)
\* the factory of the worker's linkPool
LinkFactory ==
  [id |-> "", source |-> "", target |-> "", srcPort |-> 0, dstPort |-> 0,
   protocol |-> "", bytes |-> 0, packets |-> 0, lastSeen |-> 0]

\* the reset function of the worker's linkPool
LinkReset(obj) == [obj EXCEPT !.packets = 0, !.bytes = 0, !.lastSeen = 0]

\* the factory of the worker's nodePool
NodeFactory ==
  [id |-> "", ip |-> "", lat |-> 0, lng |-> 0, country |-> "", asn |-> 0,
   org |-> "", packets |-> 0, bytes |-> 0, topPorts |-> <<>>, lastSeen |-> 0,
   packetHistory |-> <<>>, x |-> 0, y |-> 0, z |-> 0]

\* the reset function of the worker's nodePool
NodeReset(obj) ==
  [obj EXCEPT !.packets = 0, !.bytes = 0, !.topPorts = <<>>,
              !.packetHistory = <<>>]

\* release()'s structural reset, used when no reset function was supplied:
\* packets, bytes and lastSeen are cleared where the record has them
DefaultReset(obj) ==
  [f \in DOMAIN obj |-> IF f \in {"packets", "bytes", "lastSeen"} THEN 0
                        ELSE obj[f]]

\* the reset release() applies: the supplied function (linkPool, nodePool) or
\* the structural default
OPReset(kind, obj) ==
  IF kind = "link" THEN LinkReset(obj)
  ELSE IF kind = "node" THEN NodeReset(obj)
  ELSE DefaultReset(obj)

\* the factory of a pool of the given kind (the pool with the default reset
\* holds link-shaped records)
OPFactory(kind) == IF kind = "node" THEN NodeFactory ELSE LinkFactory

OPNew(kind) == [pool |-> <<>>, active |-> {}, reset |-> kind]

\* acquire(): pop the free list, or call the factory (fresh is the record the
\* factory would create); the record is added to the active set.
\* Returns the pool after the call, the record, and whether it was created.
OPAcquire(p, fresh) ==
  LET n == Len(p.pool)
      created == n = 0
      obj == IF created THEN fresh ELSE p.pool[n]
  IN [pool    |-> [p EXCEPT !.pool = IF created THEN <<>> ELSE SubSeq(p.pool, 1, n - 1),
                            !.active = p.active \cup {obj}],
      obj     |-> obj,
      created |-> created]

\* mutant: release() without the guard on the active set
OPRelease_NoGuard(p, heap, obj) ==
  [pool |-> [p EXCEPT !.active = p.active \ {obj}, !.pool = Append(p.pool, obj)],
   heap |-> [heap EXCEPT ![obj] = OPReset(p.reset, heap[obj])]]

\* mutant: release() forgets to delete the record from the active set
OPRelease_KeepActive(p, heap, obj) ==
  IF obj \notin p.active THEN [pool |-> p, heap |-> heap]
  ELSE [pool |-> [p EXCEPT !.pool = Append(p.pool, obj)],
        heap |-> [heap EXCEPT ![obj] = OPReset(p.reset, heap[obj])]]

\* release(obj): nothing unless obj is active; else reset it, delete it from
\* the active set and push it on the free list.
OPRelease(p, heap, obj) ==
  IF obj \notin p.active THEN [pool |-> p, heap |-> heap]
  ELSE [pool |-> [p EXCEPT !.active = p.active \ {obj}, !.pool = Append(p.pool, obj)],
        heap |-> [heap EXCEPT ![obj] = OPReset(p.reset, heap[obj])]]

OPGetSize(p) == Len(p.pool)

OPClear(p) == [p EXCEPT !.pool = <<>>]

(***************************************************************************)
(* SpecPool: one ObjectPool driven by any sequence of acquire, release and *)
(* clear by callers that also write to the records they hold.  Record 0 is *)
(* a record that was not created by this pool.                             *)
(***************************************************************************)
\* what the worker writes to a link record it acquired
UsedLink ==
  [id |-> "A-B-tcp", source |-> "A", target |-> "B", srcPort |-> 0,
   dstPort |-> 0, protocol |-> "tcp", bytes |-> 5, packets |-> 2,
   lastSeen |-> 7]

\* what the worker writes to a node record it acquired
UsedNode ==
  [id |-> "A", ip |-> "A", lat |-> 4, lng |-> 5, country |-> "NL", asn |-> 64,
   org |-> "acme", packets |-> 2, bytes |-> 5, topPorts |-> <<>>,
   lastSeen |-> 7, packetHistory |-> <<>>, x |-> 0, y |-> 0, z |-> 0]

\* a record of a pool of the given kind after its holder filled it in
Used(kind) == IF kind = "node" THEN UsedNode ELSE UsedLink

Records == 0..MaxObjs

RingIdle ==
  /\ ring = RBNew(RingCap, EventFactory)
  /\ log = <<>>
  /\ iterOuts = <<>>

InitPool ==
  /\ \E kind \in {"default", "link", "node"} :
       /\ pool = OPNew(kind)
       /\ objs = [o \in Records |-> IF o = 0 THEN Used(kind) ELSE OPFactory(kind)]
  /\ made = 0
  /\ last = [op |-> "new", n |-> 0]
  /\ RingIdle
  /\ PipeIdle

PoolAcquire ==
  /\ Len(pool.pool) > 0 \/ made < MaxObjs
  /\ LET r == OPAcquire(pool, made + 1)
     IN /\ pool' = r.pool
        /\ made' = IF r.created THEN made + 1 ELSE made
        /\ last' = [op |-> "acquire", n |-> 1 - last.n, obj |-> r.obj,
                    wasActive |-> r.obj \in pool.active,
                    created |-> r.created]
  /\ UNCHANGED objs
  /\ UNCHANGED <<ringVars, pipeVars>>

PoolRelease(obj) ==
  /\ obj \in 0..made
  /\ LET r == OPRelease(pool, objs, obj)
     IN /\ pool' = r.pool
        /\ objs' = r.heap
  /\ last' = [op |-> "release", n |-> 1 - last.n, obj |-> obj,
              wasActive |-> obj \in pool.active]
  /\ UNCHANGED made
  /\ UNCHANGED <<ringVars, pipeVars>>

PoolClear ==
  /\ pool' = OPClear(pool)
  /\ last' = [op |-> "clear", n |-> 1 - last.n]
  /\ UNCHANGED <<objs, made>>
  /\ UNCHANGED <<ringVars, pipeVars>>

\* the holder of an active record fills it in
PoolWrite(obj) ==
  /\ obj \in pool.active
  /\ objs[obj] # Used(pool.reset)
  /\ objs' = [objs EXCEPT ![obj] = Used(pool.reset)]
  /\ last' = [op |-> "write", n |-> 1 - last.n]
  /\ UNCHANGED <<pool, made>>
  /\ UNCHANGED <<ringVars, pipeVars>>

NextPool ==
  \/ PoolAcquire
  \/ \E obj \in Records : PoolRelease(obj)
  \/ PoolClear
  \/ \E obj \in Records : PoolWrite(obj)

SpecPool == InitPool /\ [][NextPool]_vars

(***************************************************************************)
(* Claims about the ObjectPool (checked under SpecPool).                   *)
(***************************************************************************)
FreeSet(p) == {p.pool[i] : i \in 1..Len(p.pool)}

\* C9: no record is both in the free list and active, no record is twice in
\* the free list, and acquire() never returns a record that was active when
\* it was called (so an active record was handed out exactly once since it
\* was last free).
C9_Exclusive ==
  /\ FreeSet(pool) \cap pool.active = {}
  /\ \A i, j \in 1..Len(pool.pool) : pool.pool[i] = pool.pool[j] => i = j
  /\ last.op = "acquire" => ~last.wasActive /\ last.obj \in pool.active

\* C9 witness: acquire() returned a reused record while another record is
\* active and a third is free
C9_Witness ==
  /\ last.op = "acquire" /\ ~last.created
  /\ pool.active \ {last.obj} # {}
  /\ pool.pool # <<>>

\* C10 (getSize): getSize() equals the number of free, inactive records
C10_SizeCountsFree == OPGetSize(pool) = Cardinality(FreeSet(pool) \ pool.active)

\* C10 (release): release(r) of a record that is not active changes neither
\* the pool nor any record (the reset function did not run); release(r) of
\* an active record increases getSize() by exactly one.
C10_ReleaseStep ==
  (last' # last /\ last'.op = "release") =>
     IF last'.wasActive
     THEN OPGetSize(pool') = OPGetSize(pool) + 1
     ELSE pool' = pool /\ objs' = objs

\* C10: release(r) of a record that is not active is a no-op (no reset, free
\* list and getSize() unchanged), release(r) of an active record increases
\* getSize() by exactly one, and getSize() always equals the number of free
\* records.
C10_ReleaseGuard == [](C10_SizeCountsFree) /\ [][C10_ReleaseStep]_vars

\* C10 witness: a second release of a record that was already released, and whose
\* fields differ from the factory's
C10_Witness ==
  /\ last.op = "release" /\ ~last.wasActive
  /\ last.obj # 0
  /\ last.obj \in FreeSet(pool)
  /\ OPGetSize(pool) = 2

\* acquire() returned a record that had been released before
Reused == last.op = "acquire" /\ ~last.created

\* C11: whenever acquire() returns a record that was released before, every
\* field of the record holds its factory default and none holds the value
\* it had before the release (nodePool, linkPool and default reset).
C11_ReuseIsClean == Reused => objs[last.obj] = OPFactory(pool.reset)

(***************************************************************************)
(* Telemetry worker: processBatch and the worker's message handler.        *)
(***************************************************************************)
\* evt.f || d for a numeric field: d when f is missing or 0
NumFieldOr(evt, f, d) == IF f \in DOMAIN evt /\ evt[f] # 0 THEN evt[f] ELSE d

\* evt.f || d for a string field: d when f is missing or ''
StrFieldOr(evt, f, d) == IF f \in DOMAIN evt /\ evt[f] # "" THEN evt[f] ELSE d

\* x || d on a number, x || d on a string
NumOr(x, d) == IF x = 0 THEN d ELSE x
StrOr(x, d) == IF x = "" THEN d ELSE x

\* BigInt(n) of an integer Number n is that integer (the model's events
\* carry integer counts only; BigInt throws on a fraction)
BigIntOf(n) == n

\* Map.get on a Map kept as the sequence of its values in insertion order:
\* the index of the record whose key is id, 0 when there is none
IndexOf(recs, id) ==
  IF \E i \in 1..Len(recs) : recs[i].id = id
  THEN CHOOSE i \in 1..Len(recs) : recs[i].id = id
  ELSE 0

\* nodes.get(key), or nodePool.acquire() filled in from the event.  The
\* worker never calls release(), so the pool's free list is empty and
\* acquire() returns a record fresh from the factory.
NodeFor(nodes, key, evt) ==
  IF IndexOf(nodes, key) # 0 THEN nodes[IndexOf(nodes, key)]
  ELSE [NodeFactory EXCEPT !.id = key, !.ip = key,
                           !.lat = NumFieldOr(evt, "lat", 0),
                           !.lng = NumFieldOr(evt, "lng", 0),
                           !.country = StrFieldOr(evt, "country", "Unknown"),
                           !.asn = NumFieldOr(evt, "asn", 0),
                           !.org = StrFieldOr(evt, "org", "")]

\* packets, bytes and lastSeen of a node or link record after one event
Accumulate(rec, evt, now) ==
  [rec EXCEPT !.packets = @ + BigIntOf(NumFieldOr(evt, "packets", 1)),
              !.bytes = @ + BigIntOf(NumFieldOr(evt, "bytes", 0)),
              !.lastSeen = NumFieldOr(evt, "timestamp", now)]

\* Map.set of the record under its id
MapSet(recs, rec) ==
  IF IndexOf(recs, rec.id) # 0 THEN [recs EXCEPT ![IndexOf(recs, rec.id)] = rec]
  ELSE Append(recs, rec)

\* mutant: the destination node of a flow is not counted
TouchNode_Skip(nodes, key, evt, now) ==
  IF key = evt.dst /\ evt.src # evt.dst THEN nodes
  ELSE MapSet(nodes, Accumulate(NodeFor(nodes, key, evt), evt, now))

\* the source-node and destination-node blocks of processBatch
TouchNode(nodes, key, evt, now) ==
  MapSet(nodes, Accumulate(NodeFor(nodes, key, evt), evt, now))

LinkKey(evt) ==
  evt.src \o "-" \o evt.dst \o "-" \o StrFieldOr(evt, "protocol", "tcp")

LinkFor(links, evt) ==
  IF IndexOf(links, LinkKey(evt)) # 0 THEN links[IndexOf(links, LinkKey(evt))]
  ELSE [LinkFactory EXCEPT !.id = LinkKey(evt), !.source = evt.src,
                           !.target = evt.dst,
                           !.srcPort = NumFieldOr(evt, "srcPort", 0),
                           !.dstPort = NumFieldOr(evt, "dstPort", 0),
                           !.protocol = StrFieldOr(evt, "protocol", "tcp")]

\* mutant: a link already in the map is not accumulated again
TouchLink_Once(links, evt, now) ==
  IF IndexOf(links, LinkKey(evt)) # 0 THEN links
  ELSE MapSet(links, Accumulate(LinkFor(links, evt), evt, now))

\* the link block of processBatch
TouchLink(links, evt, now) ==
  MapSet(links, Accumulate(LinkFor(links, evt), evt, now))

\* the guard of the loop body: a flow event with a truthy src and dst
IsFlow(evt) ==
  /\ evt.type = "flow"
  /\ StrFieldOr(evt, "src", "") # ""
  /\ StrFieldOr(evt, "dst", "") # ""

\* one iteration of the loop of processBatch
ProcessEvent(acc, evt, now) ==
  IF IsFlow(evt)
  THEN [nodes |-> TouchNode(TouchNode(acc.nodes, evt.src, evt, now),
                            evt.dst, evt, now),
        links |-> TouchLink(acc.links, evt, now),
        totalPackets |-> acc.totalPackets + BigIntOf(NumFieldOr(evt, "packets", 1)),
        totalBytes |-> acc.totalBytes + BigIntOf(NumFieldOr(evt, "bytes", 0))]
  ELSE acc

RECURSIVE ProcessLoop(_, _, _)
ProcessLoop(acc, events, now) ==
  IF events = <<>> THEN acc
  ELSE ProcessLoop(ProcessEvent(acc, Head(events), now), Tail(events), now)

\* processBatch(events); now is what Date.now() / 1000 returns during the run
ProcessBatch(events, now) ==
  LET r == ProcessLoop([nodes |-> <<>>, links |-> <<>>, totalPackets |-> 0,
                        totalBytes |-> 0], events, now)
  IN [nodes |-> r.nodes,
      links |-> r.links,
      stats |-> [packets |-> r.totalPackets, bytes |-> r.totalBytes,
                 nodeCount |-> Len(r.nodes), linkCount |-> Len(r.links)]]

\* self.onmessage of the worker: the message it posts for a batch.  A
\* message without an events field makes the loop of processBatch throw
\* ("events is not iterable"), and the catch branch posts the error.
WorkerResult(msg, now) ==
  IF "events" \in DOMAIN msg THEN ProcessBatch(msg.events, now)
  ELSE [error |-> "events is not iterable"]

(***************************************************************************)
(* The network store and the reconciler (worker.onmessage of the hook).    *)
(***************************************************************************)
\* bits of the significand of a JavaScript Number
MantissaBits == 53

RECURSIVE BitLen(_)
BitLen(n) == IF n = 0 THEN 0 ELSE 1 + BitLen(n \div 2)

\* Number(b) of a BigInt b >= 0: b itself when it has at most 53 significant
\* bits, else the nearest multiple of 2^(BitLen(b) - 53), ties to even
NumberOf(b) ==
  IF BitLen(b) <= MantissaBits THEN b
  ELSE LET u == 2 ^ (BitLen(b) - MantissaBits)
           q == b \div u
           r == b % u
       IN IF 2 * r > u \/ (2 * r = u /\ q % 2 = 1) THEN (q + 1) * u ELSE q * u

\* Map.set(key, val) on a Map kept as a function
MapPut(m, key, val) ==
  [k \in (DOMAIN m) \cup {key} |-> IF k = key THEN val ELSE m[k]]

\* addNode of the store (the reconciler's nodes never carry isASNode)
StoreAddNode(st, node) ==
  IF "isASNode" \in DOMAIN node /\ node.isASNode
  THEN [st EXCEPT !.nodes = MapPut(st.nodes, node.id, node),
                  !.asNodes = MapPut(st.asNodes, node.id, node)]
  ELSE [st EXCEPT !.nodes = MapPut(st.nodes, node.id, node)]

\* updateNode of the store: { ...existing, ...updates }
StoreUpdateNode(st, id, updates) ==
  [st EXCEPT
     !.nodes = IF id \in DOMAIN st.nodes
               THEN MapPut(st.nodes, id, ObjectAssign(st.nodes[id], updates))
               ELSE st.nodes,
     !.asNodes = IF id \in DOMAIN st.asNodes
                 THEN MapPut(st.asNodes, id, ObjectAssign(st.asNodes[id], updates))
                 ELSE st.asNodes]

\* addLink of the store
StoreAddLink(st, link) == [st EXCEPT !.links = MapPut(st.links, link.id, link)]

\* updateLink of the store
StoreUpdateLink(st, id, updates) ==
  IF id \in DOMAIN st.links
  THEN [st EXCEPT !.links = MapPut(st.links, id, ObjectAssign(st.links[id], updates))]
  ELSE st

\* the body of nodes.forEach in worker.onmessage; now is Date.now() / 1000
ReconcileNode(st, node, now) ==
  IF node.id \in DOMAIN st.nodes
  THEN StoreUpdateNode(st, node.id,
         [packets |-> NumberOf(node.packets), bytes |-> NumberOf(node.bytes),
          lastSeen |-> node.lastSeen, lat |-> node.lat, lng |-> node.lng,
          country |-> node.country, asn |-> node.asn, org |-> node.org])
  ELSE StoreAddNode(st,
         [id |-> node.id, ip |-> StrOr(node.ip, node.id),
          lat |-> NumOr(node.lat, 0), lng |-> NumOr(node.lng, 0),
          country |-> StrOr(node.country, "Unknown"), asn |-> node.asn,
          org |-> node.org, packets |-> NumberOf(node.packets),
          bytes |-> NumberOf(node.bytes), topPorts |-> node.topPorts,
          lastSeen |-> NumOr(node.lastSeen, now),
          packetHistory |-> node.packetHistory])

\* the body of links.forEach in worker.onmessage
ReconcileLink(st, link, now) ==
  IF link.id \in DOMAIN st.links
  THEN StoreUpdateLink(st, link.id,
         [packets |-> NumberOf(link.packets), bytes |-> NumberOf(link.bytes),
          lastSeen |-> link.lastSeen])
  ELSE StoreAddLink(st,
         [id |-> link.id, source |-> link.source, target |-> link.target,
          srcPort |-> link.srcPort, dstPort |-> link.dstPort,
          protocol |-> link.protocol, bytes |-> NumberOf(link.bytes),
          packets |-> NumberOf(link.packets),
          lastSeen |-> NumOr(link.lastSeen, now)])

RECURSIVE ReconcileNodes(_, _, _)
ReconcileNodes(st, nodes, now) ==
  IF nodes = <<>> THEN st
  ELSE ReconcileNodes(ReconcileNode(st, Head(nodes), now), Tail(nodes), now)

RECURSIVE ReconcileLinks(_, _, _)
ReconcileLinks(st, links, now) ==
  IF links = <<>> THEN st
  ELSE ReconcileLinks(ReconcileLink(st, Head(links), now), Tail(links), now)

\* mutant: the handler does not test the error field
HasError_Ignored(msg) == FALSE

\* a message with a truthy error field
HasError(msg) == "error" \in DOMAIN msg /\ msg.error # ""

\* the store after worker.onmessage of the hook handled msg
Reconcile(st, msg, now) ==
  IF HasError(msg) THEN st
  ELSE LET afterNodes == IF "nodes" \in DOMAIN msg
                         THEN ReconcileNodes(st, msg.nodes, now) ELSE st
       IN IF "links" \in DOMAIN msg
          THEN ReconcileLinks(afterNodes, msg.links, now) ELSE afterNodes

\* the stores set, one after the other, by nodes.forEach: every addNode
\* and updateNode is a set() of its own
RECURSIVE NodeSets(_, _, _)
NodeSets(st, nodes, now) ==
  IF nodes = <<>> THEN <<>>
  ELSE <<ReconcileNode(st, Head(nodes), now)>>
       \o NodeSets(ReconcileNode(st, Head(nodes), now), Tail(nodes), now)

\* the stores set, one after the other, by links.forEach
RECURSIVE LinkSets(_, _, _)
LinkSets(st, links, now) ==
  IF links = <<>> THEN <<>>
  ELSE <<ReconcileLink(st, Head(links), now)>>
       \o LinkSets(ReconcileLink(st, Head(links), now), Tail(links), now)

\* every store the subscribers are notified of while worker.onmessage of
\* the hook handles msg, in order
StoreSets(st, msg, now) ==
  IF HasError(msg) THEN <<>>
  ELSE LET nodeSets == IF "nodes" \in DOMAIN msg
                       THEN NodeSets(st, msg.nodes, now) ELSE <<>>
           afterNodes == IF nodeSets = <<>> THEN st ELSE nodeSets[Len(nodeSets)]
       IN nodeSets \o (IF "links" \in DOMAIN msg
                       THEN LinkSets(afterNodes, msg.links, now) ELSE <<>>)

\* the divisor of the rates: Math.floor(delta * 10), delta in seconds and
\* elapsed in milliseconds
RateDivisor(elapsed) == elapsed \div 100

\* the stats block of worker.onmessage of the hook ends in a RangeError:
\* the divisor BigInt(Math.floor(delta * 10)) is 0n for 0 < delta < 0.1
StatsThrows(msg, elapsed) ==
  /\ ~HasError(msg)
  /\ "stats" \in DOMAIN msg
  /\ elapsed > 0
  /\ RateDivisor(elapsed) = 0

\* statsRef.current after worker.onmessage of the hook handled msg, elapsed
\* milliseconds after lastUpdate.  BigInt division by 0n throws after
\* lastUpdate was assigned and before the rates are.
UpdateStats(st, msg, elapsed) ==
  IF HasError(msg) \/ "stats" \notin DOMAIN msg THEN st
  ELSE IF elapsed > 0 /\ RateDivisor(elapsed) # 0
       THEN [packetsPerSec |-> msg.stats.packets \div RateDivisor(elapsed),
             bytesPerSec |-> msg.stats.bytes \div RateDivisor(elapsed),
             lastUpdate |-> st.lastUpdate + elapsed]
       ELSE [st EXCEPT !.lastUpdate = @ + elapsed]

(***************************************************************************)
(* Spec: the mounted, enabled hook with its worker: addEvent, the          *)
(* dispatcher tick (flushBatch), the worker and the reconciler.            *)
(***************************************************************************)
EvAB64  == [type |-> "flow", src |-> "A", dst |-> "B", protocol |-> "tcp",
            packets |-> 1, bytes |-> 64]
EvAB128 == [type |-> "flow", src |-> "A", dst |-> "B", protocol |-> "tcp",
            packets |-> 1, bytes |-> 128]
EvBA40  == [type |-> "flow", src |-> "B", dst |-> "A", protocol |-> "tcp",
            packets |-> 1, bytes |-> 40]
EvBig   == [type |-> "flow", src |-> "A", dst |-> "B", protocol |-> "udp",
            packets |-> 2, bytes |-> 1500]

\* the events given to addEvent
PipeEvents == {EvAB64, EvAB128, EvBA40, EvBig}

\* what Date.now() / 1000 returns (the clock stands still during a run: it
\* is read only for the lastSeen of an event without a timestamp)
Times == {9}

\* the milliseconds between two ticks of the dispatcher
BATCH_INTERVAL == 50

\* the milliseconds between two runs of worker.onmessage of the hook (the
\* reading of performance.now() less lastUpdate): none, one tick, five ticks
Elapsed == {0, BATCH_INTERVAL, 5 * BATCH_INTERVAL}

\* the hook after its first effect ran with enabled = true: the worker was
\* created and flushBatch(), called on the empty buffer, scheduled a tick
Init ==
  /\ ring = RBNew(EventCap, EventFactory)
  /\ log = <<>>
  /\ iterOuts = <<>>
  /\ PoolIdle
  /\ enabled = TRUE
  /\ workerRef = TRUE
  /\ timers = 1
  /\ toWorker = <<>>
  /\ fromWorker = <<>>
  /\ store = EmptyStore
  /\ pushed = <<>>
  /\ posted = <<>>
  /\ storeRev = EmptyStore
  /\ revQueue = <<>>
  /\ phase = "live"
  /\ cleanupFn = TRUE
  /\ timeoutRef = TRUE
  /\ workers = 1
  /\ stats = NewStats
  /\ handled = <<>>
  /\ published = <<>>
  /\ captured = 0

\* mutant: addEvent pushes whatever enabled is
AddEventRun_Always(rb, en, event) == RBPush(rb, event)

\* the ring buffer after addEvent(event) of the render with enabled = en
AddEventRun(rb, en, event) == IF en THEN RBPush(rb, event) ELSE rb

\* addEvent(event); pushed records the events that went into the buffer
AddEvent(event) ==
  /\ Len(pushed) < MaxEvents
  /\ phase # "new"
  /\ ring' = AddEventRun(ring, enabled, event)
  /\ pushed' = IF enabled THEN Append(pushed, event) ELSE pushed
  /\ UNCHANGED <<log, iterOuts, poolVars, enabled, workerRef, timers, toWorker,
                 fromWorker, store, posted, storeRev, revQueue, lifeVars,
                 obsVars>>

\* mutant: flushBatch does not clear the buffer it drained
FlushBatchRun_NoClear(rb, wref, queue) ==
  IF RBGetSize(rb) = 0 THEN [ring |-> rb, toWorker |-> queue, sent |-> <<>>]
  ELSE [ring |-> rb,
        toWorker |-> IF wref /\ Len(RBToArray(rb)) > 0
                     THEN Append(queue, [events |-> RBToArray(rb)]) ELSE queue,
        sent |-> IF wref /\ Len(RBToArray(rb)) > 0
                 THEN <<RBToArray(rb)>> ELSE <<>>]

\* one run of flushBatch, but for the timer it sets: the buffer and the
\* worker's inbox after it, and the batch it posted (sent), if any
FlushBatchRun(rb, wref, queue) ==
  IF RBGetSize(rb) = 0 THEN [ring |-> rb, toWorker |-> queue, sent |-> <<>>]
  ELSE [ring |-> RBClear(rb),
        toWorker |-> IF wref /\ Len(RBToArray(rb)) > 0
                     THEN Append(queue, [events |-> RBToArray(rb)]) ELSE queue,
        sent |-> IF wref /\ Len(RBToArray(rb)) > 0
                 THEN <<RBToArray(rb)>> ELSE <<>>]

\* a pending timeout fires and flushBatch runs; it sets the next timeout
FlushBatch ==
  /\ timers > 0
  /\ ring' = FlushBatchRun(ring, workerRef, toWorker).ring
  /\ toWorker' = FlushBatchRun(ring, workerRef, toWorker).toWorker
  /\ posted' = posted \o FlushBatchRun(ring, workerRef, toWorker).sent
  /\ timers' = (timers - 1) + 1
  /\ timeoutRef' = TRUE
  /\ UNCHANGED <<log, iterOuts, poolVars, enabled, workerRef, fromWorker,
                 store, pushed, storeRev, revQueue, phase, cleanupFn, workers,
                 obsVars>>

\* the worker handles the oldest message posted to it
WorkerOnMessage ==
  /\ toWorker # <<>>
  /\ \E now \in Times :
       fromWorker' = Append(fromWorker, WorkerResult(Head(toWorker), now))
  /\ toWorker' = Tail(toWorker)
  /\ UNCHANGED <<ringVars, poolVars, enabled, workerRef, timers, store,
                 pushed, posted, storeRev, revQueue, lifeVars, obsVars>>

\* the hook handles the oldest message the worker posted (worker.onmessage
\* of the hook: the reconciler and the rate statistics), elapsed
\* milliseconds after the last one
OnWorkerMessageAfter(elapsed) ==
  /\ fromWorker # <<>>
  /\ \E now \in Times :
       /\ store' = Reconcile(store, Head(fromWorker), now)
       /\ published' = StoreSets(store, Head(fromWorker), now)
  /\ stats' = UpdateStats(stats, Head(fromWorker), elapsed)
  /\ handled' = <<Head(fromWorker)>>
  /\ fromWorker' = Tail(fromWorker)
  /\ UNCHANGED <<ringVars, poolVars, enabled, workerRef, timers, toWorker,
                 pushed, posted, storeRev, revQueue, lifeVars, captured>>

\* the same with the results one tick apart, as the dispatcher posts them
OnWorkerMessage == OnWorkerMessageAfter(BATCH_INTERVAL)

Next ==
  \/ \E event \in PipeEvents : AddEvent(event)
  \/ FlushBatch
  \/ WorkerOnMessage
  \/ OnWorkerMessage

Spec == Init /\ [][Next]_vars

(***************************************************************************)
(* SpecLife: the hook through its life: the first effect run, changes of   *)
(* the enabled argument, the unmount, with the worker that may fail to be  *)
(* created.                                                                *)
(***************************************************************************)
\* what an effect run or a cleanup of the hook reads and writes; sent is
\* the batch posted by the run, if any
HookState ==
  [ring |-> ring, workerRef |-> workerRef, timers |-> timers,
   timeoutRef |-> timeoutRef, toWorker |-> toWorker, fromWorker |-> fromWorker,
   cleanupFn |-> cleanupFn, workers |-> workers, sent |-> <<>>]

\* mutant: the teardown leaves the pending timeout alone
Teardown_KeepTimer(h) ==
  [h EXCEPT !.workerRef = FALSE,
            !.workers = IF h.workerRef THEN @ - 1 ELSE @,
            !.toWorker = IF h.workerRef THEN <<>> ELSE @,
            !.fromWorker = IF h.workerRef THEN <<>> ELSE @]

\* mutant: the teardown drops the worker without terminating it
Teardown_NoTerminate(h) ==
  [h EXCEPT !.workerRef = FALSE,
            !.timers = IF h.timeoutRef THEN @ - 1 ELSE @,
            !.timeoutRef = FALSE]

\* mutant: the teardown clears the timeout and leaves the worker running
Teardown_KeepWorker(h) ==
  [h EXCEPT !.timers = IF h.timeoutRef THEN @ - 1 ELSE @,
            !.timeoutRef = FALSE]

\* the cleanup function of the effect, and the same statements in the
\* effect's branch for enabled = false: terminate() discards the messages
\* not yet delivered in either direction, clearTimeout() the pending tick
Teardown(h) ==
  [h EXCEPT !.workerRef = FALSE,
            !.workers = IF h.workerRef THEN @ - 1 ELSE @,
            !.toWorker = IF h.workerRef THEN <<>> ELSE @,
            !.fromWorker = IF h.workerRef THEN <<>> ELSE @,
            !.timers = IF h.timeoutRef THEN @ - 1 ELSE @,
            !.timeoutRef = FALSE]

\* the body of the effect; created tells whether new Worker() succeeded
EffectRun(h, en, created) ==
  IF ~en THEN [Teardown(h) EXCEPT !.cleanupFn = FALSE]
  ELSE IF created
       THEN [h EXCEPT !.workerRef = TRUE,
                      !.workers = @ + 1,
                      !.ring = FlushBatchRun(h.ring, TRUE, h.toWorker).ring,
                      !.toWorker = FlushBatchRun(h.ring, TRUE, h.toWorker).toWorker,
                      !.sent = FlushBatchRun(h.ring, TRUE, h.toWorker).sent,
                      !.timers = @ + 1,
                      !.timeoutRef = TRUE,
                      !.cleanupFn = TRUE]
       ELSE [h EXCEPT !.cleanupFn = TRUE]

\* a commit with changed dependencies: the cleanup of the previous effect
\* run, if it returned one, then the effect
Commit(h, en, created) ==
  EffectRun(IF h.cleanupFn THEN Teardown(h) ELSE h, en, created)

\* the hook's state becomes h
SetHook(h) ==
  /\ ring' = h.ring
  /\ workerRef' = h.workerRef
  /\ timers' = h.timers
  /\ timeoutRef' = h.timeoutRef
  /\ toWorker' = h.toWorker
  /\ fromWorker' = h.fromWorker
  /\ cleanupFn' = h.cleanupFn
  /\ workers' = h.workers
  /\ posted' = posted \o h.sent

\* the events given to addEvent in SpecLife
LifeEvents == {EvAB64, EvBA40}

\* the hook before its first effect ran, with either value of enabled
InitLife ==
  /\ ring = RBNew(EventCap, EventFactory)
  /\ log = <<>>
  /\ iterOuts = <<>>
  /\ PoolIdle
  /\ enabled \in BOOLEAN
  /\ workerRef = FALSE
  /\ timers = 0
  /\ toWorker = <<>>
  /\ fromWorker = <<>>
  /\ store = EmptyStore
  /\ pushed = <<>>
  /\ posted = <<>>
  /\ storeRev = EmptyStore
  /\ revQueue = <<>>
  /\ phase = "new"
  /\ cleanupFn = FALSE
  /\ timeoutRef = FALSE
  /\ workers = 0
  /\ stats = NewStats
  /\ handled = <<>>
  /\ published = <<>>
  /\ captured = 0

\* the first effect run after the mount
Mount ==
  /\ phase = "new"
  /\ phase' = "live"
  /\ \E created \in BOOLEAN : SetHook(EffectRun(HookState, enabled, created))
  /\ UNCHANGED <<log, iterOuts, poolVars, enabled, store, pushed, storeRev,
                 revQueue, obsVars>>

\* the component renders with the other value of enabled
SetEnabled ==
  /\ phase = "live"
  /\ enabled' = ~enabled
  /\ \E created \in BOOLEAN : SetHook(Commit(HookState, ~enabled, created))
  /\ UNCHANGED <<log, iterOuts, poolVars, store, pushed, storeRev, revQueue,
                 phase, obsVars>>

\* the component unmounts: the cleanup of the last effect run, if any
Unmount ==
  /\ phase = "live"
  /\ phase' = "gone"
  /\ SetHook(IF cleanupFn THEN Teardown(HookState) ELSE HookState)
  /\ UNCHANGED <<log, iterOuts, poolVars, enabled, store, pushed, storeRev,
                 revQueue, obsVars>>

NextLife ==
  \/ Mount
  \/ SetEnabled
  \/ Unmount
  \/ \E event \in LifeEvents : AddEvent(event)
  \/ FlushBatch
  \/ WorkerOnMessage
  \/ \E elapsed \in Elapsed : OnWorkerMessageAfter(elapsed)

SpecLife == InitLife /\ [][NextLife]_vars

\* SpecLife with timers that fire: a timeout that stays pending runs
\* flushBatch (setTimeout(flushBatch, BATCH_INTERVAL))
SpecLifeFair == SpecLife /\ WF_vars(FlushBatch)

(***************************************************************************)
(* SpecApp: the hook of Spec next to usePacketCapture, which App mounts    *)
(* on the same store.                                                      *)
(***************************************************************************)
\* the store after processPacket(pkt) and the flushUpdates() that follows
\* it; pkt.src and pkt.dst are nodes of the store, as generateRealisticPacket
\* draws them from it, so ensureNode adds nothing
CapturePacket(st, pkt) ==
  LET linkId == pkt.src \o "-" \o pkt.dst \o "-" \o pkt.protocol
      withLink ==
        IF linkId \in DOMAIN st.links
        THEN StoreUpdateLink(st, linkId,
               [bytes |-> st.links[linkId].bytes + pkt.size,
                packets |-> st.links[linkId].packets + 1,
                lastSeen |-> pkt.time])
        ELSE StoreAddLink(st,
               [id |-> linkId, source |-> pkt.src, target |-> pkt.dst,
                srcPort |-> pkt.srcPort, dstPort |-> pkt.dstPort,
                protocol |-> pkt.protocol, bytes |-> pkt.size, packets |-> 1,
                lastSeen |-> pkt.time])
      Flushed(s, ip) ==
        StoreUpdateNode(s, ip,
          [packets |-> s.nodes[ip].packets + 1,
           bytes |-> s.nodes[ip].bytes + pkt.size,
           lastSeen |-> NumOr(pkt.time, s.nodes[ip].lastSeen)])
  IN Flushed(Flushed(withLink, pkt.src), pkt.dst)

\* the packets generateRealisticPacket may return on the store st
CapturePackets(st) ==
  {pkt \in {[src |-> a, dst |-> b, srcPort |-> 443, dstPort |-> 443,
             protocol |-> "tcp", size |-> 64, time |-> now] :
               a \in DOMAIN st.nodes, b \in DOMAIN st.nodes, now \in Times} :
     pkt.src # pkt.dst}

\* one run of the interval callback of usePacketCapture in which one of the
\* packets generated is not null
CaptureTick ==
  /\ captured < MaxPackets
  /\ Cardinality(DOMAIN store.nodes) >= 2
  /\ \E pkt \in CapturePackets(store) : store' = CapturePacket(store, pkt)
  /\ captured' = captured + 1
  /\ UNCHANGED <<ringVars, poolVars, enabled, workerRef, timers, toWorker,
                 fromWorker, pushed, posted, storeRev, revQueue, lifeVars,
                 stats, handled, published>>

\* the events given to addEvent in SpecApp
AppEvents == {EvAB64, EvBA40}

NextApp ==
  \/ \E event \in AppEvents : AddEvent(event)
  \/ FlushBatch
  \/ WorkerOnMessage
  \/ OnWorkerMessage
  \/ CaptureTick

SpecApp == Init /\ [][NextApp]_vars

(***************************************************************************)
(* SpecWorker: the worker and the hook's handler fed messages directly:    *)
(* batches with malformed and non-flow events, a message the worker fails  *)
(* on, and an error message that carries the fields of a result as well.   *)
(***************************************************************************)
\* a flow event without dst, and an event that is no flow
EvNoDst  == [type |-> "flow", src |-> "A", protocol |-> "tcp", packets |-> 1,
             bytes |-> 64]
EvThreat == [type |-> "threat", src |-> "A", dst |-> "B"]

WorkerEvents == {EvAB64, EvBA40, EvNoDst, EvThreat}

WorkerBatches == UNION {[1..n -> WorkerEvents] : n \in 1..MaxBatch}

\* the messages posted to the worker: a batch, or a message without events
WorkerInputs ==
  {[events |-> b] : b \in WorkerBatches} \cup {[batch |-> <<EvAB64>>]}

\* the message of the worker's catch branch with the fields of a result
\* added to it
ErrorWithResult ==
  [error |-> "Unknown error",
   nodes |-> ProcessBatch(<<EvAB64>>, 9).nodes,
   links |-> ProcessBatch(<<EvAB64>>, 9).links,
   stats |-> ProcessBatch(<<EvAB64>>, 9).stats]

InitWorker ==
  /\ RingIdle
  /\ PoolIdle
  /\ enabled = TRUE
  /\ workerRef = TRUE
  /\ timers = 0
  /\ toWorker \in [1..2 -> WorkerInputs]
  /\ fromWorker \in {<<>>, <<ErrorWithResult>>}
  /\ store = EmptyStore
  /\ storeRev = EmptyStore
  /\ revQueue = <<>>
  /\ pushed = <<>>
  /\ posted = <<>>
  /\ phase = "live"
  /\ cleanupFn = TRUE
  /\ timeoutRef = FALSE
  /\ workers = 1
  /\ stats = NewStats
  /\ handled = <<>>
  /\ published = <<>>
  /\ captured = 0

NextWorker ==
  \/ WorkerOnMessage
  \/ \E elapsed \in Elapsed : OnWorkerMessageAfter(elapsed)

SpecWorker == InitWorker /\ [][NextWorker]_vars

(***************************************************************************)
(* SpecBatch: one worker with the hook's handler, given one batch, or a    *)
(* batch and then a batch of one event, over events that carry a count of  *)
(* zero, equal src and dst, ids with a dash, enrichment, or no flow.       *)
(***************************************************************************)
EvZero  == [type |-> "flow", src |-> "A", dst |-> "B", protocol |-> "tcp",
            packets |-> 0, bytes |-> 0]
EvLoop  == [type |-> "flow", src |-> "A", dst |-> "A", protocol |-> "tcp",
            packets |-> 1, bytes |-> 64]
EvDashL == [type |-> "flow", src |-> "A-B", dst |-> "C", protocol |-> "tcp",
            packets |-> 1, bytes |-> 64]
EvDashR == [type |-> "flow", src |-> "A", dst |-> "B-C", protocol |-> "tcp",
            packets |-> 1, bytes |-> 64]
EvGeo   == [type |-> "flow", src |-> "A", dst |-> "B", protocol |-> "tcp",
            packets |-> 1, bytes |-> 64, lat |-> 4, lng |-> 5,
            country |-> "NL", asn |-> 64, org |-> "acme"]

BatchEvents ==
  {EvAB64, EvBA40, EvZero, EvLoop, EvDashL, EvDashR, EvGeo, EvNoDst, EvThreat}

\* the batches given to processBatch
EventBatches == UNION {[1..n -> BatchEvents] : n \in 1..MaxBatch}

InitBatch ==
  /\ RingIdle
  /\ PoolIdle
  /\ enabled = TRUE
  /\ workerRef = TRUE
  /\ timers = 0
  /\ \/ \E b \in EventBatches : toWorker = <<[events |-> b]>>
     \/ \E b \in EventBatches : \E evt \in BatchEvents :
          toWorker = <<[events |-> b], [events |-> <<evt>>]>>
  /\ fromWorker = <<>>
  /\ store = EmptyStore
  /\ storeRev = EmptyStore
  /\ revQueue = <<>>
  /\ pushed = <<>>
  /\ posted = <<>>
  /\ phase = "live"
  /\ cleanupFn = TRUE
  /\ timeoutRef = FALSE
  /\ workers = 1
  /\ stats = NewStats
  /\ handled = <<>>
  /\ published = <<>>
  /\ captured = 0

NextBatch ==
  \/ WorkerOnMessage
  \/ OnWorkerMessage

SpecBatch == InitBatch /\ [][NextBatch]_vars

(***************************************************************************)
(* SpecOrder: two error-free worker results handled by the reconciler on   *)
(* an empty store in one order (store) and in the other (storeRev).        *)
(***************************************************************************)
\* the batches the two results are computed from
Batches == UNION {[1..n -> PipeEvents] : n \in 1..MaxBatch}

InitOrder ==
  /\ RingIdle
  /\ PoolIdle
  /\ enabled = TRUE
  /\ workerRef = TRUE
  /\ timers = 0
  /\ toWorker = <<>>
  /\ store = EmptyStore
  /\ storeRev = EmptyStore
  /\ pushed = <<>>
  /\ posted = <<>>
  /\ phase = "live"
  /\ cleanupFn = TRUE
  /\ timeoutRef = FALSE
  /\ workers = 1
  /\ stats = NewStats
  /\ handled = <<>>
  /\ published = <<>>
  /\ captured = 0
  /\ \E b1, b2 \in Batches : \E now \in Times :
       /\ fromWorker = <<WorkerResult([events |-> b1], now),
                         WorkerResult([events |-> b2], now)>>
       /\ revQueue = <<WorkerResult([events |-> b2], now),
                       WorkerResult([events |-> b1], now)>>

\* the reconciler handles the next message of the reversed order
OnWorkerMessageRev ==
  /\ revQueue # <<>>
  /\ \E now \in Times : storeRev' = Reconcile(storeRev, Head(revQueue), now)
  /\ revQueue' = Tail(revQueue)
  /\ UNCHANGED <<ringVars, poolVars, enabled, workerRef, timers, toWorker,
                 fromWorker, store, pushed, posted, lifeVars, obsVars>>

NextOrder ==
  \/ OnWorkerMessage
  \/ OnWorkerMessageRev

SpecOrder == InitOrder /\ [][NextOrder]_vars

(***************************************************************************)
(* Claims about the reconciler and the whole pipeline.                     *)
(***************************************************************************)
\* the keys of a store with the packets and bytes of each
Counters(st) ==
  [nodes |-> [k \in DOMAIN st.nodes |-> <<st.nodes[k].packets, st.nodes[k].bytes>>],
   links |-> [k \in DOMAIN st.links |-> <<st.links[k].packets, st.links[k].bytes>>]]

\* every event given to addEvent was dispatched, aggregated and reconciled
Settled ==
  /\ RBGetSize(ring) = 0
  /\ toWorker = <<>>
  /\ fromWorker = <<>>

RECURSIVE Flatten(_)
Flatten(seqs) == IF seqs = <<>> THEN <<>> ELSE Head(seqs) \o Flatten(Tail(seqs))

\* the records recs are the events items, in order (a record of the ring
\* buffer carries the fields of the event pushed into it)
SameEvents(recs, items) ==
  /\ Len(recs) = Len(items)
  /\ \A i \in 1..Len(recs) : Agrees(recs[i], items[i])

\* no event was overwritten in the ring buffer or cleared without being sent
NothingLost == SameEvents(Flatten(posted), pushed)

\* C1: handling two error-free worker results B1, B2 on an empty store in
\* the order B1,B2 leaves the same node and link keys with the same packets
\* and bytes as handling them in the order B2,B1.
C1_OrderIndependent ==
  (fromWorker = <<>> /\ revQueue = <<>>) => Counters(store) = Counters(storeRev)

\* the packets and bytes a store holds under key k of map m (0 when absent)
Held(m, k) == IF k \in DOMAIN m THEN <<m[k].packets, m[k].bytes>> ELSE <<0, 0>>

\* one run of the reconciler on an error-free message: every key of the
\* message ends with its previous counters plus the message's counters
UpsertStep ==
  (Len(fromWorker') < Len(fromWorker) /\ ~HasError(Head(fromWorker))) =>
     /\ \A i \in 1..Len(Head(fromWorker).nodes) :
          LET n == Head(fromWorker).nodes[i]
          IN Held(store'.nodes, n.id) =
               <<Held(store.nodes, n.id)[1] + n.packets,
                 Held(store.nodes, n.id)[2] + n.bytes>>
     /\ \A i \in 1..Len(Head(fromWorker).links) :
          LET l == Head(fromWorker).links[i]
          IN Held(store'.links, l.id) =
               <<Held(store.links, l.id)[1] + l.packets,
                 Held(store.links, l.id)[2] + l.bytes>>

\* two flow events that both touch node X leave X with p1 + p2 packets,
\* whether they went through one batch or two
TwoEventsAdd ==
  (Len(pushed) = 2 /\ Settled /\ NothingLost) =>
     \A X \in {"A", "B"} :
        (X \in {pushed[1].src, pushed[1].dst} /\ X \in {pushed[2].src, pushed[2].dst})
          => Held(store.nodes, X)[1] = pushed[1].packets + pushed[2].packets

\* C2: upsert with addition: the reconciler inserts an absent key with the
\* worker's counters and adds the worker's counters to those of a present
\* key; so two events to one node leave it with p1 + p2 packets, in one
\* batch or in two.
C2_UpsertAdds == [](TwoEventsAdd) /\ [][UpsertStep]_vars

\* C3: the packets and bytes of every node and link of the store never
\* decrease from one store state to the next.
C3_Monotone ==
  [][/\ \A k \in DOMAIN store.nodes :
           /\ k \in DOMAIN store'.nodes
           /\ store'.nodes[k].packets >= store.nodes[k].packets
           /\ store'.nodes[k].bytes >= store.nodes[k].bytes
     /\ \A k \in DOMAIN store.links :
           /\ k \in DOMAIN store'.links
           /\ store'.links[k].packets >= store.links[k].packets
           /\ store'.links[k].bytes >= store.links[k].bytes]_vars

\* the three events of the end-to-end scenario went through one batch
\* cycle: pushed, drained by one tick, aggregated and reconciled
ScenarioDone ==
  /\ pushed = <<EvAB64, EvAB128, EvBA40>>
  /\ Len(posted) = 1
  /\ SameEvents(posted[1], pushed)
  /\ Settled

\* C4: after the scenario the store holds node A and node B with packets 3
\* and bytes 232 each, link A->B with packets 2 and bytes 192, link B->A
\* with packets 1 and bytes 40, and nothing else.
C4_EndToEnd ==
  ScenarioDone =>
     /\ Counters(store).nodes = ("A" :> <<3, 232>> @@ "B" :> <<3, 232>>)
     /\ Counters(store).links = ("A-B-tcp" :> <<2, 192>> @@ "B-A-tcp" :> <<1, 40>>)
     /\ store.links["A-B-tcp"].source = "A" /\ store.links["A-B-tcp"].target = "B"
     /\ store.links["B-A-tcp"].source = "B" /\ store.links["B-A-tcp"].target = "A"

\* C4 witness: the scenario ran to its end
C4_Witness == ScenarioDone /\ DOMAIN store.nodes = {"A", "B"}

\* C5 (with N events in place of 10^7): after N flow events of 1500 bytes
\* each to node B, dispatched in any split into batches and all reconciled,
\* the store's byte counter of B is exactly 1500 * N.
C5_ExactTotal ==
  (/\ Len(pushed) >= 1
   /\ \A i \in 1..Len(pushed) : pushed[i] = EvBig
   /\ Settled
   /\ NothingLost) => Held(store.nodes, "B")[2] = 1500 * Len(pushed)

(***************************************************************************)
(* Claims about the dispatcher and the life of the hook.                   *)
(***************************************************************************)
\* the last n elements of seq
LastN(seq, n) == SubSeq(seq, Len(seq) - n + 1, Len(seq))

\* what a tick would do in the current state
TickOutcome == FlushBatchRun(ring, workerRef, toWorker)

\* C12 (one run): where a tick can run, flushBatch on an empty buffer posts
\* nothing and leaves the buffer as it is; on a non-empty buffer it posts
\* exactly one message, whose events are the events held, oldest first,
\* and leaves the buffer empty.
C12_TickOutcome ==
  timers > 0 =>
     IF RBGetSize(ring) = 0
     THEN TickOutcome.toWorker = toWorker /\ TickOutcome.ring = ring
     ELSE /\ Len(TickOutcome.toWorker) = Len(toWorker) + 1
          /\ SubSeq(TickOutcome.toWorker, 1, Len(toWorker)) = toWorker
          /\ SameEvents(TickOutcome.toWorker[Len(toWorker) + 1].events,
                        LastN(pushed, RBGetSize(ring)))
          /\ RBGetSize(TickOutcome.ring) = 0

\* C12 (the next tick): a step that is no effect run and no cleanup leaves
\* the number of pending timeouts as it was, so the tick that ran has
\* scheduled the next one, and batchTimeoutRef holds it.
C12_Rescheduled ==
  (phase' = phase /\ enabled' = enabled) =>
     timers' = timers /\ (timers > 0 => timeoutRef')

\* C12: each run of flushBatch on an empty buffer sends nothing, leaves the
\* buffer unchanged and schedules the next tick; each run on a non-empty
\* buffer sends exactly one message with the buffer's contents in
\* insertion order, leaves the buffer empty and schedules the next tick.
C12_DispatcherTick == [](C12_TickOutcome) /\ [][C12_Rescheduled]_vars

\* C12 witness: a tick posted a batch of two events behind an earlier
\* batch, emptied the buffer, and the next tick is pending
C12_Witness ==
  /\ Len(posted) = 2
  /\ Len(posted[2]) = 2
  /\ Len(toWorker) = 2
  /\ RBGetSize(ring) = 0
  /\ timers = 1

\* C13: at most one batch is posted to the worker without its result
\* having been received by the hook; a tick that fires while a batch is
\* outstanding does not put a second one in flight.
C13_OneInFlight == Len(toWorker) + Len(fromWorker) <= 1

\* sub is full with some elements left out (records against the events
\* pushed into them)
RECURSIVE IsSubseq(_, _)
IsSubseq(sub, full) ==
  IF sub = <<>> THEN TRUE
  ELSE IF full = <<>> THEN FALSE
  ELSE IF Agrees(Head(sub), Head(full)) THEN IsSubseq(Tail(sub), Tail(full))
  ELSE IsSubseq(sub, Tail(full))

\* C14 (histories): the batches posted so far, followed by the events held,
\* are events given to addEvent, each taken at most once and in order; as
\* long as no push could overwrite, they are all of them.
C14_EachOnce ==
  /\ IsSubseq(Flatten(posted) \o RBToArray(ring), pushed)
  /\ Len(pushed) <= EventCap =>
        SameEvents(Flatten(posted) \o RBToArray(ring), pushed)

\* C14 (one tick): a step that empties a non-empty buffer posts one batch,
\* made of the events that were held.
C14_ClearedIsSent ==
  (RBGetSize(ring) > 0 /\ RBGetSize(ring') = 0) =>
     /\ Len(posted') = Len(posted) + 1
     /\ SameEvents(posted'[Len(posted')], LastN(pushed, RBGetSize(ring)))

\* C14: every event held in the ring buffer when a tick runs is included in
\* exactly one batch posted to the worker: no event is in two batches and
\* none is cleared from the buffer without being sent.
C14_ExactlyOnce == [](C14_EachOnce) /\ [][C14_ClearedIsSent]_vars

\* C14 witness: after a push overwrote the oldest event, one tick posted
\* the events held, as many as the buffer has slots, and emptied the buffer
C14_Witness ==
  /\ Len(pushed) = EventCap + 1
  /\ Len(posted) = 1
  /\ Len(posted[1]) = EventCap
  /\ RBGetSize(ring) = 0

\* the pipeline is torn down: unmounted, or mounted with enabled = false
TornDown == phase = "gone" \/ (phase = "live" /\ ~enabled)

\* C15 (timer): after a teardown no timeout of the dispatcher is pending
\* and the worker is gone.
C15_NoTimer == TornDown => timers = 0 /\ ~timeoutRef /\ ~workerRef

\* C15 (no tick, no late result): while the pipeline stays torn down no
\* tick runs (nothing is posted, the buffer is not drained) and no result
\* is handled: the store and the rate statistics stay as they are.
C15_Frozen ==
  (TornDown /\ TornDown') =>
     /\ store' = store /\ stats' = stats /\ handled' = handled
     /\ posted' = posted
     /\ RBGetSize(ring') >= RBGetSize(ring)

\* C15: after the teardown (cleanup of the effect, or enabled = false) no
\* timer is pending and no tick runs, and the result of a batch posted
\* before the teardown leaves the store and the rate statistics unchanged.
C15_Teardown == [](C15_NoTimer) /\ [][C15_Frozen]_vars

\* C15 witness: torn down after a batch was posted whose result was never
\* handled, with events still arriving at the buffer's owner
C15_Witness ==
  /\ TornDown
  /\ posted # <<>>
  /\ handled = <<>>
  /\ store = EmptyStore
  /\ phase = "gone" /\ RBGetSize(ring) > 0

\* the worker could not be created: the hook is mounted and enabled
\* without a worker
WorkerUnavailable == phase = "live" /\ enabled /\ ~workerRef

\* C18: when the worker cannot be created the dispatcher aggregates the
\* ticks on the producer's side, so once nothing is pending (no timeout, no
\* message in flight) every event given to addEvent is in the store.
C18_Fallback ==
  (WorkerUnavailable /\ timers = 0 /\ toWorker = <<>> /\ fromWorker = <<>>) =>
     \A i \in 1..Len(pushed) :
        /\ pushed[i].src \in DOMAIN store.nodes
        /\ pushed[i].dst \in DOMAIN store.nodes

(***************************************************************************)
(* Claims about the worker's results and the handler (SpecWorker).         *)
(***************************************************************************)
\* a flow event the loop of processBatch skips: src or dst is missing
Malformed(evt) == evt.type = "flow" /\ ~IsFlow(evt)

\* events without its malformed events
RECURSIVE WellFormed(_)
WellFormed(events) ==
  IF events = <<>> THEN <<>>
  ELSE IF Malformed(Head(events)) THEN WellFormed(Tail(events))
  ELSE <<Head(events)>> \o WellFormed(Tail(events))

\* the worker handled its oldest message, a batch, in this step
WorkerStep ==
  /\ toWorker # <<>>
  /\ toWorker' = Tail(toWorker)
  /\ Len(fromWorker') = Len(fromWorker) + 1
  /\ "events" \in DOMAIN Head(toWorker)

\* the result the worker posted in this step is that of the batch without
\* its malformed events, and its droppedEvents counts them
DroppedCounted ==
  LET events == Head(toWorker).events
      result == fromWorker'[Len(fromWorker')]
  IN /\ "error" \notin DOMAIN result
     /\ \E now \in Times :
          /\ result.nodes = ProcessBatch(WellFormed(events), now).nodes
          /\ result.links = ProcessBatch(WellFormed(events), now).links
          /\ result.stats.packets = ProcessBatch(WellFormed(events), now).stats.packets
          /\ result.stats.bytes = ProcessBatch(WellFormed(events), now).stats.bytes
     /\ "droppedEvents" \in DOMAIN result.stats
     /\ result.stats.droppedEvents = Len(events) - Len(WellFormed(events))

\* C16: a batch with one flow event lacking dst among valid events gives a
\* result with droppedEvents = 1 and the nodes, links and totals of the
\* valid events alone; in general droppedEvents is the number of events
\* skipped, and a malformed event never aborts the batch.
C16_DroppedCounted == [][WorkerStep => DroppedCounted]_vars

\* the hook handled its oldest message, one with an error field, in this
\* step
ErrorStep ==
  /\ fromWorker # <<>>
  /\ fromWorker' = Tail(fromWorker)
  /\ handled' = <<Head(fromWorker)>>
  /\ "error" \in DOMAIN Head(fromWorker)

\* C17: when the message handled carries an error field, the store's node
\* map and link map and the rate statistics are after the step what they
\* were before it, whatever else the message contains.
C17_FailedBatchNoOp ==
  [][ErrorStep => store' = store /\ stats' = stats]_vars

\* C17 witness: the error posted by the worker's catch branch was handled
\* after a result had filled the store and set the rates
C17_Witness ==
  /\ handled = <<[error |-> "events is not iterable"]>>
  /\ DOMAIN store.nodes = {"A", "B"}
  /\ stats.packetsPerSec > 0
  /\ fromWorker = <<>>

(***************************************************************************)
(* Claims about the writes to the store.                                   *)
(***************************************************************************)
\* C19: all node and link updates of one worker result become visible in
\* one store transition: every store the subscribers were notified of
\* while the last result was handled is the store with the whole result
\* applied.
C19_AtomicBatch == \A i \in 1..Len(published) : published[i] = store

\* the hook handled its oldest message in this step (the reconciler ran)
ReconcilerStep ==
  /\ fromWorker # <<>>
  /\ fromWorker' = Tail(fromWorker)
  /\ handled' = <<Head(fromWorker)>>

\* C20: the node map and the link map of the store change only in steps of
\* the reconciler; every step of another component, the packet-capture
\* feed included, leaves them unchanged.
C20_SoleWriter ==
  [][(store'.nodes # store.nodes \/ store'.links # store.links)
        => ReconcilerStep]_vars

(***************************************************************************)
(* Claims about the rate statistics (SpecWorker).                          *)
(***************************************************************************)
\* the hook handled a result with stats in this step
ResultStep ==
  /\ ReconcilerStep
  /\ ~HasError(Head(fromWorker))
  /\ "stats" \in DOMAIN Head(fromWorker)

\* the rate of count over elapsed milliseconds, in units per second, the
\* elapsed time clamped to one millisecond
RatePerSec(count, elapsed) ==
  (count * 1000) \div (IF elapsed < 1 THEN 1 ELSE elapsed)

\* C21: on every reconciliation cycle the rates are the cycle's packets and
\* bytes over the elapsed seconds, the elapsed time clamped to a small
\* positive value: the computation completes without error for every
\* elapsed time >= 0, cycles shorter than 100 ms included, and the
\* timestamp of the last sample advances by the elapsed time.
C21_RateDefined ==
  [][ResultStep =>
       LET elapsed == stats'.lastUpdate - stats.lastUpdate
           result == Head(fromWorker)
       IN /\ ~StatsThrows(result, elapsed)
          /\ stats'.packetsPerSec = RatePerSec(result.stats.packets, elapsed)
          /\ stats'.bytesPerSec = RatePerSec(result.stats.bytes, elapsed)]_vars

(***************************************************************************)
(* Claims about processBatch (SpecBatch).                                  *)
(***************************************************************************)
RECURSIVE SumSeq(_)
SumSeq(nums) == IF nums = <<>> THEN 0 ELSE Head(nums) + SumSeq(Tail(nums))

\* the events of a batch that are flows with src and dst
Flows(events) == SelectSeq(events, IsFlow)

\* the sum of field f over the flows that have X as src, plus the sum over
\* the flows that have X as dst
NodeSum(flows, X, f) ==
  SumSeq([i \in 1..Len(flows) |->
            (IF flows[i].src = X THEN flows[i][f] ELSE 0)
          + (IF flows[i].dst = X THEN flows[i][f] ELSE 0)])

\* the ordered (source, destination, protocol) triple of a flow
Triple(evt) == <<evt.src, evt.dst, StrFieldOr(evt, "protocol", "tcp")>>

\* the sum of field f over the flows with the triple t
LinkSum(flows, t, f) ==
  SumSeq([i \in 1..Len(flows) |->
            IF Triple(flows[i]) = t THEN flows[i][f] ELSE 0])

\* the sum of field f over all flows
TotalSum(flows, f) == SumSeq([i \in 1..Len(flows) |-> flows[i][f]])

\* result holds, for the flows given, one node per id with the sums of its
\* events, one link per triple with the sums of its events, and the totals
SumsOf(result, flows) ==
  /\ {result.nodes[i].id : i \in 1..Len(result.nodes)}
       = {flows[i].src : i \in 1..Len(flows)} \cup {flows[i].dst : i \in 1..Len(flows)}
  /\ \A i \in 1..Len(result.nodes) :
        /\ result.nodes[i].packets = NodeSum(flows, result.nodes[i].id, "packets")
        /\ result.nodes[i].bytes = NodeSum(flows, result.nodes[i].id, "bytes")
  /\ {<<result.links[i].source, result.links[i].target, result.links[i].protocol>> :
         i \in 1..Len(result.links)} = {Triple(flows[i]) : i \in 1..Len(flows)}
  /\ \A i \in 1..Len(result.links) :
        LET t == <<result.links[i].source, result.links[i].target,
                   result.links[i].protocol>>
        IN /\ result.links[i].packets = LinkSum(flows, t, "packets")
           /\ result.links[i].bytes = LinkSum(flows, t, "bytes")
  /\ result.stats.packets = TotalSum(flows, "packets")
  /\ result.stats.bytes = TotalSum(flows, "bytes")

\* the batch the worker handles in this step, and the result it posts
StepEvents == Head(toWorker).events
StepResult == fromWorker'[Len(fromWorker')]

\* C22: for a batch of flow events that all carry src and dst, with counts
\* any integers >= 0, processBatch returns for each node the sums of
\* packets and bytes over the events with that src plus those with that
\* dst, for each link the sums over the events with that triple, and in
\* stats the sums over all events.
C22_Accumulation ==
  [][(WorkerStep /\ Flows(StepEvents) = StepEvents)
        => SumsOf(StepResult, StepEvents)]_vars

\* C23: the result the worker posts for a batch holds exactly the node and
\* link keys touched by that batch, with the sums of that batch alone and
\* that batch's totals, whatever the worker processed before.
C23_PerBatch == [][WorkerStep => SumsOf(StepResult, Flows(StepEvents))]_vars

\* C24: an event that is no flow changes no packets or bytes counter and
\* no total, and the result holds the entity it names with its metadata
\* (for a threat event, the threat annotation).
C24_NonFlow ==
  [][WorkerStep =>
       /\ StepResult.stats.packets
            = ProcessBatch(Flows(StepEvents), 9).stats.packets
       /\ \A k \in 1..Len(StepEvents) :
            StepEvents[k].type = "threat" =>
               \E i \in 1..Len(StepResult.nodes) :
                  /\ StepResult.nodes[i].id = StepEvents[k].src
                  /\ "threatInfo" \in DOMAIN StepResult.nodes[i]]_vars

\* lat, lng, country, asn and org of a node of the store
Enrichment(node) == <<node.lat, node.lng, node.country, node.asn, node.org>>

\* C25: the enrichment of a node in the store is that of the first event
\* that introduced it: a later batch that names the node leaves lat, lng,
\* country, asn and org as they are.
C25_FirstEnrichment ==
  [][ReconcilerStep =>
       \A id \in DOMAIN store.nodes :
          Enrichment(store'.nodes[id]) = Enrichment(store.nodes[id])]_vars

\* C26: two flow events are accumulated into the same link record exactly
\* when they have the same ordered (source, destination, protocol) triple:
\* the result has one link record per triple of the batch.
C26_LinkKeying ==
  [][WorkerStep =>
       Len(StepResult.links)
         = Cardinality({Triple(Flows(StepEvents)[i]) :
                          i \in 1..Len(Flows(StepEvents))})]_vars

\* C28: in every result the packets of the links add up to stats.packets
\* and the packets of the nodes to twice stats.packets, and the same for
\* bytes; a skipped event adds to none of them.
C28_Conservation ==
  [][WorkerStep =>
       /\ SumSeq([i \in 1..Len(StepResult.links) |-> StepResult.links[i].packets])
            = StepResult.stats.packets
       /\ SumSeq([i \in 1..Len(StepResult.nodes) |-> StepResult.nodes[i].packets])
            = 2 * StepResult.stats.packets
       /\ SumSeq([i \in 1..Len(StepResult.links) |-> StepResult.links[i].bytes])
            = StepResult.stats.bytes
       /\ SumSeq([i \in 1..Len(StepResult.nodes) |-> StepResult.nodes[i].bytes])
            = 2 * StepResult.stats.bytes
       /\ StepResult.stats.packets
            = ProcessBatch(Flows(StepEvents), 9).stats.packets
       /\ StepResult.stats.bytes
            = ProcessBatch(Flows(StepEvents), 9).stats.bytes]_vars

\* C28 witness: the result of a batch with an event from A to A and a
\* skipped event was posted
C28_Witness ==
  /\ toWorker = <<>>
  /\ Len(fromWorker) = 1
  /\ Len(fromWorker[1].nodes) = 1
  /\ fromWorker[1].nodes[1].packets = 2
  /\ fromWorker[1].stats.packets = 1

(***************************************************************************)
(* The cursors of the RingBuffer (SpecRing).                               *)
(***************************************************************************)
\* C27: in every state reached by push and clear on a RingBuffer of
\* capacity C >= 1: 0 <= size <= C, 0 <= read < C, 0 <= write < C,
\* write = (read + size) mod C, and isFull() holds exactly when size = C.
C27_Cursors ==
  /\ ring.capacity >= 1
  /\ 0 <= ring.size /\ ring.size <= ring.capacity
  /\ 0 <= ring.read /\ ring.read < ring.capacity
  /\ 0 <= ring.write /\ ring.write < ring.capacity
  /\ ring.write = (ring.read + ring.size) % ring.capacity
  /\ RBGetSize(ring) = ring.size
  /\ RBIsFull(ring) <=> (ring.size = ring.capacity)

\* C27 witness: a full buffer of more than one slot whose read cursor has
\* moved on: pushes have overwritten the oldest items
C27_Witness ==
  /\ ring.capacity > 1
  /\ ring.size = ring.capacity
  /\ ring.read # 0
  /\ ring.write = ring.read

(***************************************************************************)
(* Claims about the timer chain and the eventual dispatch (SpecLife).      *)
(***************************************************************************)
\* C29: across every sequence of enable, disable, effect re-run, cleanup
\* and tick of one hook, at most one timeout of the dispatcher is pending
\* and at most one worker is alive; the pending timeout is the one
\* batchTimeoutRef holds, and the worker alive is the one workerRef holds.
C29_SingleChain ==
  /\ timers <= 1
  /\ workers <= 1
  /\ (timers = 1) <=> timeoutRef
  /\ (workers = 1) <=> workerRef

\* C29 witness: the hook runs its second worker and its second timer
\* chain: a batch was posted and never answered, because the first worker
\* was terminated, and the hook is enabled again
C29_Witness ==
  /\ phase = "live" /\ enabled
  /\ timers = 1 /\ workers = 1
  /\ posted # <<>>
  /\ handled = <<>>
  /\ toWorker = <<>> /\ fromWorker = <<>>

\* the pipeline is enabled and its worker was created
Running == phase = "live" /\ enabled /\ workerRef

\* C30 (ticks go on): while the pipeline runs, a tick is pending.
C30_TickPending == Running => timers > 0

\* C30 (disabled): while enabled is false, addEvent of any event leaves
\* the ring buffer as it is.
C30_DisabledNoOp ==
  ~enabled => \A event \in LifeEvents : AddEventRun(ring, enabled, event) = ring

\* C30: while the pipeline stays enabled with its worker, every tick
\* schedules the next, so with timers that fire the events held in the
\* ring buffer are eventually drained by a tick, which posts them to the
\* worker (C14), unless the pipeline stops running first; while the
\* pipeline is disabled, addEvent leaves the ring buffer unchanged.
C30_EventualDispatch ==
  /\ [](C30_TickPending)
  /\ [](C30_DisabledNoOp)
  /\ (Running /\ RBGetSize(ring) > 0) ~> (RBGetSize(ring) = 0 \/ ~Running)

\* C30 witness: the pipeline runs, two ticks have posted every event given
\* to addEvent, and the buffer is empty
C30_Witness ==
  /\ Running
  /\ RBGetSize(ring) = 0
  /\ Len(posted) = 2
  /\ SameEvents(Flatten(posted), pushed)
  /\ Len(pushed) = MaxEvents

====
